---- MODULE Spec2Model ----
(***************************************************************************)
(* Model of src/trade.py, the paper trading simulator.                     *)
(*                                                                         *)
(* The program is a Streamlit script: every user interaction re-runs       *)
(* main() from the top against st.session_state.  One action of this       *)
(* module is one such run with one button pressed.  A run calls the        *)
(* price feed (yfinance) many times; any of these calls can raise, which   *)
(* ends the run at that line and keeps the session state as it then is.    *)
(*                                                                         *)
(* Money is modelled in whole units (exact integer arithmetic); the        *)
(* 'Date' fields (wall clock) of the two logs are not modelled.            *)
(***************************************************************************)
EXTENDS Integers, Sequences, FiniteSets, TLC

\* ------------------------------------------------------------------------
\* Program constants
\* ------------------------------------------------------------------------

\* trade.py:10  The model trades the first two of the eight tickers
\* ['AAPL', 'GOOGL', 'MSFT', 'AMZN', 'TSLA', 'META', 'NFLX', 'NVDA'].
available_stocks == <<"AAPL", "GOOGL">>

\* trade.py:13
initial_balance == 1000

\* trade.py:132  st.number_input('Enter quantity:', min_value=1, step=1)
MinQuantity == 1

\* trade.py:246  len(random_number) >= 8
MinIdLength == 8

\* trade.py:247  st.number_input(..., min_value=20, max_value=50)
MinAmount == 20
MaxAmount == 50

\* ------------------------------------------------------------------------
\* Bounds of the model
\* ------------------------------------------------------------------------

\* Largest quantity entered in the quantity box.
MaxQuantity == 2

\* Orders are entered while the transaction history is shorter than this.
MaxHistory == 2

\* Money is loaded only while the balance is at most this.
MaxLoadableCash == 500

\* Quotes the price feed can return for a ticker (non-negative): a low and
\* a high one each, a worthless stock among them.
Quotes(ticker) == IF ticker = "AAPL" THEN {100, 500} ELSE {0, 500}

\* Amounts entered in the amount box: the two ends of its range.
LoadAmounts == {MinAmount, MaxAmount}

Tickers == {available_stocks[i] : i \in 1..Len(available_stocks)}

Quantities == MinQuantity..MaxQuantity

\* The feed's possible states: a quote for every ticker.
Feeds ==
    {feed \in [Tickers -> UNION {Quotes(ticker) : ticker \in Tickers}] :
        \A ticker \in Tickers : feed[ticker] \in Quotes(ticker)}

\* Longest 'Close' series the feed returns for a period.
MaxSeriesLength == 4

\* Largest window calculate_rsi is applied with (the source's default is 14,
\* on a series of six months).
MaxWindow == 3

\* Closing prices of a history; each divides the largest one.
ClosePrices == {1, 2, 4}

\* The 'Close' columns the feed can return: at least three days.
CloseSeries == UNION {[1..n -> ClosePrices] : n \in 3..MaxSeriesLength}

Windows == 2..MaxWindow

\* Lengths of the transaction IDs typed: empty, and around line 246's limit.
IdLengths == {0, MinIdLength - 1, MinIdLength, MinIdLength + 1}

\* A transaction ID; only its length is read (line 246).
Identifiers == {[i \in 1..n |-> "x"] : n \in IdLengths}

\* ------------------------------------------------------------------------
\* State
\* ------------------------------------------------------------------------
VARIABLES
    portfolio,            \* st.session_state.portfolio: ticker -> shares
    cash_balance,         \* st.session_state.cash_balance
    transaction_history,  \* st.session_state.transaction_history
    performance,          \* st.session_state.performance
    watchlist,            \* st.session_state.watchlist
    price,                \* the feed: ticker -> quote now returned by fetch_stock_price
    last,                 \* the last event: what the run did and showed
                          \* (st.success/st.error/traceback), or a move of the feed
    close_history,        \* the feed: fetch_stock_history(stock, period)['Close']
    benchmark_history,    \* the feed: yf.Ticker("^GSPC").history(period='1y')['Close']
    analytics             \* what the analytics last shown were computed to be

vars == <<portfolio, cash_balance, transaction_history, performance,
          watchlist, price, last, close_history, benchmark_history, analytics>>

\* The histories of the feed and the analytics derived from them.
charts == <<close_history, benchmark_history, analytics>>

session == <<portfolio, cash_balance, transaction_history, performance, watchlist>>

NoStock == "-"

\* The record of a run: the button pressed, the widget values it read and
\* the message it ended with.
Run(op, outcome, stock, quantity, quote, id, amount) ==
    [op |-> op, outcome |-> outcome, stock |-> stock, quantity |-> quantity,
     price |-> quote, id |-> id, amount |-> amount]

\* A run ended by an exception of a feed call made before the pressed
\* button's handler was reached.
Aborted == Run("none", "exception", NoStock, 0, 0, <<>>, 0)

\* A float: the fraction num / den with den > 0, or NaN, or Inf.
Number(num, den) == [kind |-> "number", num |-> num, den |-> den]
NaN == [kind |-> "nan", num |-> 0, den |-> 0]
Inf == [kind |-> "inf", num |-> 0, den |-> 0]

\* No value computed.
NoValue == [kind |-> "none", num |-> 0, den |-> 0]

\* No analytics computed yet.
NoAnalytics == [shown |-> "none", window |-> 0, rsi |-> <<>>, beta |-> NoValue]

\* trade.py:16-26; the sessions of the trading tabs read no history.
Init ==
    /\ close_history = <<>>
    /\ benchmark_history = <<>>
    /\ analytics = NoAnalytics
    /\ portfolio = [stock \in Tickers |-> 0]
    /\ cash_balance = initial_balance
    /\ transaction_history = <<>>
    /\ performance = <<>>
    /\ watchlist = <<>>
    /\ price \in Feeds
    /\ last = Run("none", "start", NoStock, 0, 0, <<>>, 0)

\* ------------------------------------------------------------------------
\* The price feed
\* ------------------------------------------------------------------------

\* trade.py:28-30  fetch_stock_price, when the call returns.
fetch_stock_price(ticker) == price[ticker]

\* Where a run can be ended by a feed call that raises
\* (stock.history(...)['Close'].iloc[0] on an empty frame, or no network):
\*   "early"      a call made before the trade handler (lines 60-128),
\*   "valuation"  a call of the valuation at line 164,
\*   "none"       no call raises.
\* (A call that raises after the pressed button's handler, lines 178-224,
\* leaves the session as a run without failure does.)
FailPoints == {"none", "early", "valuation"}

\* The quote of one ticker changes between two runs.
FeedMove(ticker, quote) ==
    /\ price[ticker] # quote
    /\ price' = [price EXCEPT ![ticker] = quote]
    /\ last' = Run("feed", "moved", ticker, 0, quote, <<>>, 0)
    /\ UNCHANGED <<session, charts>>

\* ------------------------------------------------------------------------
\* Trade tab (lines 122-170)
\* ------------------------------------------------------------------------

\* Mutant of transaction_type: every order is labelled a Buy.
transaction_type_buy(buy_button) == "Buy"

\* trade.py:140
transaction_type(buy_button) == IF buy_button THEN "Buy" ELSE "Sell"

\* trade.py:141
Cost(quantity, current_price) == quantity * current_price

\* Mutant of CanBuy: the balance is compared with zero, not with the cost.
CanBuyAnyCash(cost) == cash_balance > 0

\* trade.py:143  the guard of the buy branch
CanBuy(cost) == cash_balance >= cost

\* Mutant of CanSell: the sell branch has no guard.
CanSellAlways(selected_stock, quantity) == TRUE

\* Mutant of CanSell: any holding allows a sale of any quantity.
CanSellAnyHolding(selected_stock, quantity) == portfolio[selected_stock] > 0

\* trade.py:146  the guard of the sell branch
CanSell(selected_stock, quantity) == portfolio[selected_stock] >= quantity

\* Mutant of BuyShares: one share is added whatever the quantity.
BuyOneShare(selected_stock, quantity) == portfolio[selected_stock] + 1

\* trade.py:145
BuyCash(cost) == cash_balance - cost

\* trade.py:144
BuyShares(selected_stock, quantity) == portfolio[selected_stock] + quantity

\* Mutant of SellCash: the proceeds are not credited.
SellCashNoCredit(cost) == cash_balance

\* trade.py:148
SellCash(cost) == cash_balance + cost

\* trade.py:147
SellShares(selected_stock, quantity) == portfolio[selected_stock] - quantity

\* Mutant of Transaction: 'Total' holds the price of one share.
TransactionUnitTotal(selected_stock, type, quantity, current_price, cost) ==
    [Stock |-> selected_stock, Type |-> type, Quantity |-> quantity,
     Price |-> current_price, Total |-> current_price]

\* trade.py:154-161  (without 'Date')
Transaction(selected_stock, type, quantity, current_price, cost) ==
    [Stock |-> selected_stock, Type |-> type, Quantity |-> quantity,
     Price |-> current_price, Total |-> cost]

RECURSIVE SumValue(_, _)
\* sum(pf[stock] * fetch_stock_price(stock) for stock in available_stocks),
\* over the first n tickers.
SumValue(pf, n) ==
    IF n = 0 THEN 0
    ELSE SumValue(pf, n - 1)
         + pf[available_stocks[n]] * fetch_stock_price(available_stocks[n])

\* trade.py:164 (and 113-114)
total_value(pf, cash) == SumValue(pf, Len(available_stocks)) + cash

\* trade.py:165-168  (without 'Date')
PerformanceSample(value) == [TotalValue |-> value]

\* Mutant of UpdatedPortfolio: the new quantity is stored for every ticker.
UpdatedEveryPosition(selected_stock, shares) == [stock \in Tickers |-> shares]

\* trade.py:144, 147  the assignment to portfolio[selected_stock]
UpdatedPortfolio(selected_stock, shares) ==
    [portfolio EXCEPT ![selected_stock] = shares]

\* trade.py:154  transaction_history.append(...)
AppendTransaction(record) == Append(transaction_history, record)

\* Mutant of AppendSample: the sample is inserted at the front.
PrependSample(sample) == <<sample>> \o performance

\* trade.py:165  performance.append(...)
AppendSample(sample) == Append(performance, sample)

\* One run with Buy (buy_button) or Sell (~buy_button) pressed.
Order(buy_button, selected_stock, quantity, fail) ==
    LET current_price == fetch_stock_price(selected_stock)          \* 128
        type == transaction_type(buy_button)                       \* 140
        cost == Cost(quantity, current_price)                      \* 141
        bought == buy_button /\ CanBuy(cost)                       \* 143
        sold == ~buy_button /\ CanSell(selected_stock, quantity)   \* 146
        shares == IF bought THEN BuyShares(selected_stock, quantity)
                  ELSE SellShares(selected_stock, quantity)
        cash == IF bought THEN BuyCash(cost) ELSE SellCash(cost)
        pf == UpdatedPortfolio(selected_stock, shares)
    IN
    /\ Len(transaction_history) < MaxHistory
    /\ fail \in {"none", "early", "valuation"}
    /\ UNCHANGED <<watchlist, price, charts>>
    /\ IF fail = "early"
       THEN /\ last' = Aborted
            /\ UNCHANGED <<portfolio, cash_balance, transaction_history, performance>>
       ELSE IF ~(bought \/ sold)
       THEN \* 149-151: st.error and return
            /\ fail = "none"
            /\ last' = Run(type, "rejected", selected_stock, quantity,
                           current_price, <<>>, 0)
            /\ UNCHANGED <<portfolio, cash_balance, transaction_history, performance>>
       ELSE /\ portfolio' = pf
            /\ cash_balance' = cash
            /\ transaction_history' =
                   AppendTransaction(Transaction(selected_stock, type, quantity,
                                                 current_price, cost))
            /\ IF fail = "valuation"
               THEN \* a fetch_stock_price of line 164 raises
                    /\ performance' = performance
                    /\ last' = Run(type, "exception", selected_stock, quantity,
                                   current_price, <<>>, 0)
               ELSE /\ performance' =
                          AppendSample(PerformanceSample(total_value(pf, cash)))
                    /\ last' = Run(type, "success", selected_stock, quantity,
                                   current_price, <<>>, 0)

Buy(selected_stock, quantity, fail) == Order(TRUE, selected_stock, quantity, fail)

Sell(selected_stock, quantity, fail) == Order(FALSE, selected_stock, quantity, fail)

\* ------------------------------------------------------------------------
\* Performance tab: portfolio analytics (lines 111-120)
\* ------------------------------------------------------------------------

\* x / y on numpy floats with x, y >= 0: a division by zero warns and
\* gives NaN or Inf, it raises no exception.
Divide(x, y) ==
    IF y # 0 THEN Number(x, y)
    ELSE IF x = 0 THEN NaN ELSE Inf

\* trade.py:117  the dict built for every ticker of available_stocks
diversification ==
    [stock \in Tickers |->
        Divide(portfolio[stock] * fetch_stock_price(stock),
               total_value(portfolio, cash_balance))]

\* ------------------------------------------------------------------------
\* Watchlist tab (lines 203-237)
\* ------------------------------------------------------------------------

\* Mutant of InWatchlist: only the first entry is compared.
InWatchlistFirst(stock) == watchlist # <<>> /\ watchlist[1] = stock

\* trade.py:209  add_stock not in st.session_state.watchlist
InWatchlist(stock) == \E i \in 1..Len(watchlist) : watchlist[i] = stock

RECURSIVE ListRemove(_, _)
\* list.remove(x): drops the first occurrence of x.
ListRemove(list, x) ==
    IF list = <<>> THEN <<>>
    ELSE IF Head(list) = x THEN Tail(list)
    ELSE <<Head(list)>> \o ListRemove(Tail(list), x)

\* trade.py:207-213
AddToWatchlist(add_stock, fail) ==
    /\ fail \in {"none", "early"}
    /\ UNCHANGED <<portfolio, cash_balance, transaction_history, performance,
                   price, charts>>
    /\ IF fail = "early"
       THEN /\ last' = Aborted
            /\ watchlist' = watchlist
       ELSE IF ~InWatchlist(add_stock)
       THEN /\ watchlist' = Append(watchlist, add_stock)
            /\ last' = Run("Add", "success", add_stock, 0, 0, <<>>, 0)
       ELSE /\ watchlist' = watchlist
            /\ last' = Run("Add", "warning", add_stock, 0, 0, <<>>, 0)

\* trade.py:216, 234-237
RemoveFromWatchlist(remove_stock, fail) ==
    /\ fail \in {"none", "early"}
    /\ watchlist # <<>>
    /\ InWatchlist(remove_stock)
    /\ UNCHANGED <<portfolio, cash_balance, transaction_history, performance,
                   price, charts>>
    /\ IF fail = "early"
       THEN /\ last' = Aborted
            /\ watchlist' = watchlist
       ELSE /\ watchlist' = ListRemove(watchlist, remove_stock)
            /\ last' = Run("Remove", "success", remove_stock, 0, 0, <<>>, 0)

\* ------------------------------------------------------------------------
\* Load Money tab (lines 239-250)
\* ------------------------------------------------------------------------

\* Mutant of IdAccepted: the limit is off by one.
IdAcceptedOffByOne(random_number) == Len(random_number) >= MinIdLength - 1

\* trade.py:246
IdAccepted(random_number) == Len(random_number) >= MinIdLength

\* Mutant of LoadCredit: the amount itself is credited.
LoadCreditPlain(amount_to_load) == amount_to_load

\* trade.py:249
LoadCredit(amount_to_load) == amount_to_load * amount_to_load

\* A run with random_number typed as the transaction ID and a press of
\* 'Load Money' intended; the button exists only under line 246.
LoadMoney(random_number, amount_to_load, fail) ==
    /\ fail \in {"none", "early"}
    /\ cash_balance <= MaxLoadableCash
    /\ UNCHANGED <<portfolio, transaction_history, performance, watchlist,
                   price, charts>>
    /\ IF fail = "early"
       THEN /\ last' = Aborted
            /\ cash_balance' = cash_balance
       ELSE IF IdAccepted(random_number)
       THEN /\ cash_balance' = cash_balance + LoadCredit(amount_to_load)
            /\ last' = Run("Load", "success", NoStock, 0, 0,
                           random_number, amount_to_load)
       ELSE \* no amount box, no button
            /\ cash_balance' = cash_balance
            /\ last' = Run("Load", "none", NoStock, 0, 0, random_number, 0)

\* ------------------------------------------------------------------------
\* calculate_rsi (lines 42-48) and the risk metrics (lines 176-183)
\*
\* A series is a sequence; index i of the source is index i + 1 here.
\* ------------------------------------------------------------------------

RECURSIVE SumOver(_, _, _)
\* series[from] + ... + series[to]
SumOver(series, from, to) ==
    IF from > to THEN 0 ELSE series[to] + SumOver(series, from, to - 1)

\* Series.diff(): the first entry has no predecessor and is NaN.
Diff(data) ==
    [i \in 1..Len(data) |->
        IF i = 1 THEN NaN ELSE Number(data[i] - data[i - 1], 1)]

\* trade.py:44  delta.where(delta > 0, 0): an entry is kept where the
\* condition is true and replaced by 0 elsewhere; NaN > 0 is false.
Gains(delta) ==
    [i \in 1..Len(delta) |->
        IF delta[i] # NaN /\ delta[i].num > 0 THEN delta[i].num ELSE 0]

\* trade.py:45  -delta.where(delta < 0, 0)
Losses(delta) ==
    [i \in 1..Len(delta) |->
        IF delta[i] # NaN /\ delta[i].num < 0 THEN 0 - delta[i].num ELSE 0]

\* Series.rolling(window=window).mean(): NaN until window entries are in
\* the window, then their mean.
RollingMean(series, window) ==
    [i \in 1..Len(series) |->
        IF i < window THEN NaN
        ELSE Number(SumOver(series, i - window + 1, i), window)]

\* x / y on floats with x, y >= 0 (pandas and numpy: no exception).
FloatDivide(x, y) ==
    IF x = NaN \/ y = NaN THEN NaN
    ELSE IF y.num = 0 THEN (IF x.num = 0 THEN NaN ELSE Inf)
    ELSE Number(x.num * y.den, x.den * y.num)

\* trade.py:47  100 - (100 / (1 + rs))
RsiOf(rs) ==
    IF rs = NaN THEN NaN
    ELSE IF rs = Inf THEN Number(100, 1)
    ELSE Number(100 * rs.num, rs.num + rs.den)

\* trade.py:42-48
calculate_rsi(data, window) ==
    LET delta == Diff(data)                                \* 43
        gain == RollingMean(Gains(delta), window)          \* 44
        loss == RollingMean(Losses(delta), window)         \* 45
    IN [i \in 1..Len(data) |-> RsiOf(FloatDivide(gain[i], loss[i]))]   \* 46-47

\* The unit the returns are counted in: every closing price divides it.
ReturnUnit == CHOOSE unit \in ClosePrices : \A close \in ClosePrices : close <= unit

\* trade.py:179  pct_change().dropna(), in units of 1 / ReturnUnit
Returns(close) ==
    [i \in 1..(Len(close) - 1) |->
        (ReturnUnit * (close[i + 1] - close[i])) \div close[i]]

\* N * N * sum((x - mean(x)) * (y - mean(y))) for series of N entries
CenteredProducts(x, y) ==
    LET N == Len(x)
        products == [i \in 1..N |->
                        (N * x[i] - SumOver(x, 1, N)) * (N * y[i] - SumOver(y, 1, N))]
    IN SumOver(products, 1, N)

\* np.cov(x, y)[0, 1]: the divisor is N - 1
NpCov(x, y) ==
    Number(CenteredProducts(x, y), Len(x) * Len(x) * (Len(x) - 1))

\* np.var(x): the divisor is N
NpVar(x) == Number(CenteredProducts(x, x), Len(x) * Len(x) * Len(x))

\* trade.py:182  the benchmark (fetched at line 190) is not an argument
Beta(returns) == FloatDivide(NpCov(returns, returns), NpVar(returns))

\* trade.py:71-72  the sidebar's chart (the window is the function's
\* parameter; the sidebar passes none)
RsiChart(window) ==
    /\ Len(close_history) > window
    /\ analytics' = [shown |-> "rsi", window |-> window,
                     rsi |-> calculate_rsi(close_history, window),
                     beta |-> NoValue]
    /\ UNCHANGED <<session, price, last, close_history, benchmark_history>>

\* trade.py:176-186  the risk metrics of one stock
RiskMetrics ==
    /\ analytics' = [shown |-> "risk", window |-> 0, rsi |-> <<>>,
                     beta |-> Beta(Returns(close_history))]
    /\ UNCHANGED <<session, price, last, close_history, benchmark_history>>

\* ------------------------------------------------------------------------
\* Specifications
\* ------------------------------------------------------------------------

OrderStep ==
    \E stock \in Tickers, quantity \in Quantities, fail \in FailPoints :
        \/ Buy(stock, quantity, fail)
        \/ Sell(stock, quantity, fail)

WatchlistStep ==
    \E stock \in Tickers, fail \in FailPoints :
        \/ AddToWatchlist(stock, fail)
        \/ RemoveFromWatchlist(stock, fail)

LoadStep ==
    \E id \in Identifiers, amount \in LoadAmounts, fail \in FailPoints :
        LoadMoney(id, amount, fail)

FeedStep ==
    \E ticker \in Tickers : \E quote \in Quotes(ticker) : FeedMove(ticker, quote)

Next == OrderStep \/ WatchlistStep \/ LoadStep \/ FeedStep

Spec == Init /\ [][Next]_vars

\* A session of Buy, Sell and Load Money events.
NextLedger == OrderStep \/ LoadStep \/ FeedStep

SpecLedger == Init /\ [][NextLedger]_vars

\* A session without the Load Money tab being used.
NextNoLoad == OrderStep \/ WatchlistStep \/ FeedStep

SpecNoLoad == Init /\ [][NextNoLoad]_vars

\* A session of every button of the three tabs, under a feed whose quotes
\* stay as they were at the start.
NextTabs == OrderStep \/ WatchlistStep \/ LoadStep

SpecTabs == Init /\ [][NextTabs]_vars

\* A session without the Load Money tab being used, under a feed whose
\* quotes stay as they were at the start.
NextFixedFeed == OrderStep \/ WatchlistStep

SpecFixedFeed == Init /\ [][NextFixedFeed]_vars

\* A fresh session to which the feed returns a year of closing prices of
\* a stock and, for the same days, of the benchmark.
InitAnalytics ==
    /\ portfolio = [stock \in Tickers |-> 0]
    /\ cash_balance = initial_balance
    /\ transaction_history = <<>>
    /\ performance = <<>>
    /\ watchlist = <<>>
    /\ price \in Feeds
    /\ last = Run("none", "start", NoStock, 0, 0, <<>>, 0)
    /\ close_history \in CloseSeries
    /\ benchmark_history \in CloseSeries
    /\ Len(benchmark_history) = Len(close_history)
    /\ analytics = NoAnalytics

AnalyticsStep ==
    \/ \E window \in Windows : RsiChart(window)
    \/ RiskMetrics

\* The analytics, computed on what the feed returns.
SpecAnalytics == InitAnalytics /\ [][AnalyticsStep]_vars

\* ------------------------------------------------------------------------
\* Properties
\* ------------------------------------------------------------------------

\* The ledger part of the session state.
ledger == <<portfolio, cash_balance, transaction_history, performance>>

\* C1: in every reachable state of a session of Buy, Sell and Load Money
\* events under non-negative quotes, cash_balance >= 0.
C1_CashNeverNegative == cash_balance >= 0

\* C1's case: a Buy that spent the whole balance.
C1_Witness ==
    /\ last.op = "Buy"
    /\ last.outcome = "success"
    /\ cash_balance = 0

\* C2: every held quantity is an integer >= 0 in every reachable state, and
\* a run with Sell pressed changes the session only if the quantity held
\* of its ticker is at least the quantity sold.
C2_QuantitiesNeverNegative ==
    /\ [](\A stock \in Tickers : portfolio[stock] \in Nat)
    /\ [][(last'.op = "Sell" /\ session' # session)
            => portfolio[last'.stock] >= last'.quantity]_vars

\* C2's case: a Sell of all the shares held of a ticker.
C2_Witness ==
    /\ last.op = "Sell"
    /\ last.outcome = "success"
    /\ portfolio[last.stock] = 0

\* C3: an order that is a Buy with cash_balance < quantity x price, or a
\* Sell with fewer shares held than sold, leaves cash_balance, the
\* positions, both logs and the watchlist as they were.
C3_RejectedOrderChangesNothing ==
    [][(\/ last'.op = "Buy" /\ cash_balance < last'.quantity * last'.price
        \/ last'.op = "Sell" /\ portfolio[last'.stock] < last'.quantity)
         => UNCHANGED session]_vars

\* C3's case: a Sell of 2 shares with 1 held was rejected, with both logs
\* and the watchlist non-empty.
C3_Witness ==
    /\ last.op = "Sell"
    /\ last.outcome = "rejected"
    /\ portfolio[last.stock] = 1
    /\ transaction_history # <<>>
    /\ performance # <<>>
    /\ watchlist # <<>>

\* C4: an accepted Buy of q at quote p on T sets cash_balance to
\* cash_before - q*p and T's quantity to quantity_before + q; an accepted
\* Sell sets them to cash_before + q*p and quantity_before - q.
C4_AcceptedOrderArithmetic ==
    [][/\ (last'.op = "Buy" /\ cash_balance >= last'.quantity * last'.price)
            => /\ cash_balance' = cash_balance - last'.quantity * last'.price
               /\ portfolio'[last'.stock]
                      = portfolio[last'.stock] + last'.quantity
       /\ (last'.op = "Sell" /\ portfolio[last'.stock] >= last'.quantity)
            => /\ cash_balance' = cash_balance + last'.quantity * last'.price
               /\ portfolio'[last'.stock]
                      = portfolio[last'.stock] - last'.quantity]_vars

\* C4's case, the scenario: cash 1000, buy 2 at 100 gives cash 800 and
\* position 2.
C4_Witness ==
    /\ last = Run("Buy", "success", "AAPL", 2, 100, <<>>, 0)
    /\ Len(transaction_history) = 1
    /\ cash_balance = 800
    /\ portfolio["AAPL"] = 2

\* C5: an accepted Buy or Sell appends exactly one record to the
\* transaction history, carrying the ticker, the side of the button
\* pressed, the quantity, the quote and total = quantity x price; every
\* other event (a rejected order, Load Money, the watchlist buttons) leaves
\* the history as it was.
C5_HistoryGrowsByAcceptedOrders ==
    [][IF \/ last'.op = "Buy" /\ cash_balance >= last'.quantity * last'.price
          \/ last'.op = "Sell" /\ portfolio[last'.stock] >= last'.quantity
       THEN transaction_history' =
                Append(transaction_history,
                       [Stock |-> last'.stock, Type |-> last'.op,
                        Quantity |-> last'.quantity, Price |-> last'.price,
                        Total |-> last'.quantity * last'.price])
       ELSE transaction_history' = transaction_history]_vars

\* C5's case: a second accepted order, a Sell of 2, was logged.
C5_Witness ==
    /\ last.op = "Sell"
    /\ last.outcome = "success"
    /\ last.quantity = 2
    /\ Len(transaction_history) = 2
    /\ transaction_history[2].Type = "Sell"
    /\ watchlist # <<>>

\* C6: after every event the number of performance samples equals the
\* number of transactions, also when a feed call of the valuation fails.
C6_SamplesMatchTransactions == Len(performance) = Len(transaction_history)

\* C7: with quotes that stay fixed and no Load Money event,
\* total_value = cash_balance + sum of quantity x price equals the initial
\* balance 1000 in every reachable state.
C7_TotalValueConserved ==
    total_value(portfolio, cash_balance) = initial_balance

\* C7's case: shares of a ticker worth something were bought and some sold.
C7_Witness ==
    /\ last.op = "Sell"
    /\ last.outcome = "success"
    /\ last.price > 0
    /\ portfolio[last.stock] > 0

RECURSIVE TotalOf(_, _)
\* Sum of 'Total' over the first n records of the history of one type.
TotalOf(type, n) ==
    IF n = 0 THEN 0
    ELSE TotalOf(type, n - 1)
         + (IF transaction_history[n].Type = type
            THEN transaction_history[n].Total ELSE 0)

\* C8: with no Load Money event and quotes that vary, (sum of Total over
\* Buy records) - (sum of Total over Sell records) equals
\* initial_balance - cash_balance.
C8_HistoryReconcilesCash ==
    TotalOf("Buy", Len(transaction_history))
        - TotalOf("Sell", Len(transaction_history))
    = initial_balance - cash_balance

\* C8's case: shares bought at one quote were sold at another.
C8_Witness ==
    /\ Len(transaction_history) = 2
    /\ transaction_history[1].Type = "Buy"
    /\ transaction_history[2].Type = "Sell"
    /\ transaction_history[1].Stock = transaction_history[2].Stock
    /\ transaction_history[1].Price # transaction_history[2].Price

\* C9: a Load Money attempt with an identifier of fewer than 8 characters
\* leaves cash_balance, the positions and both logs as they were.
C9_ShortIdentifierRejected ==
    [][(last'.op = "Load" /\ Len(last'.id) < 8) => UNCHANGED ledger]_vars

\* C9's case: an identifier of 7 characters was tried after a trade.
C9_Witness ==
    /\ last.op = "Load"
    /\ Len(last.id) = 7
    /\ last.outcome = "none"
    /\ transaction_history # <<>>

\* C10: an accepted Load Money event (identifier of 8 characters or more)
\* has an amount a with 20 <= a <= 50 and adds exactly a*a, a value in
\* [400, 2500], to cash_balance.
C10_AcceptedLoadCredit ==
    [][(last'.op = "Load" /\ Len(last'.id) >= 8)
         => /\ last'.amount \in 20..50
            /\ cash_balance' = cash_balance + last'.amount * last'.amount
            /\ cash_balance' - cash_balance \in 400..2500]_vars

\* C10's case: the largest amount, 50, was loaded on an empty balance.
C10_Witness ==
    /\ last.op = "Load"
    /\ last.outcome = "success"
    /\ last.amount = 50
    /\ cash_balance = 2500

RECURSIVE ProportionNumerators(_)
\* Sum of the numerators of the proportions of the first n tickers (they
\* share the denominator total_value).
ProportionNumerators(n) ==
    IF n = 0 THEN 0
    ELSE ProportionNumerators(n - 1) + diversification[available_stocks[n]].num

\* C11: in every reachable state with total_value > 0 the diversification
\* proportions of the tickers sum to 1.
C11_ProportionsSumToOne ==
    total_value(portfolio, cash_balance) > 0
        => ProportionNumerators(Len(available_stocks))
               = total_value(portfolio, cash_balance)

\* C12: in every reachable state with total_value = 0 the diversification
\* holds no outcome of a division by zero (an empty result holds none).
C12_NoDivisionByZero ==
    total_value(portfolio, cash_balance) = 0
        => \A stock \in DOMAIN diversification :
               diversification[stock] \notin {NaN, Inf}

\* C13: a failing feed call never ends a run with an error: the valuation
\* goes on with the ticker at price 0 and the event completes.
C13_FeedFailureTolerated == last.outcome # "exception"

\* C14: every event that changes cash_balance or a position appends one
\* performance sample whose value is the new cash_balance plus the sum of
\* new quantity x current quote.
C14_SampleAfterEveryMutation ==
    [][(cash_balance' # cash_balance \/ portfolio' # portfolio)
         => performance' =
                Append(performance,
                       [TotalValue |-> total_value(portfolio', cash_balance')])]_vars

\* s is a prefix of t.
IsPrefix(s, t) == Len(s) <= Len(t) /\ SubSeq(t, 1, Len(s)) = s

\* C15: across every event the transaction history and the performance
\* series before the event are prefixes of those after it.
C15_LogsAppendOnly ==
    [][/\ IsPrefix(transaction_history, transaction_history')
       /\ IsPrefix(performance, performance')]_vars

\* C15's case: a second, different record was appended to each log.
C15_Witness ==
    /\ Len(transaction_history) = 2
    /\ transaction_history[1] # transaction_history[2]
    /\ Len(performance) = 2
    /\ performance[1] # performance[2]

Member(list, x) == \E i \in 1..Len(list) : list[i] = x

\* a stands before b in list.
Before(list, a, b) ==
    \E i, j \in 1..Len(list) : i < j /\ list[i] = a /\ list[j] = b

\* C16: the watchlist never holds a ticker twice; adding a ticker that is
\* present leaves it unchanged, adding another puts it last, and the
\* tickers that stay keep their order.
C16_WatchlistUniqueInOrder ==
    /\ [](\A i, j \in 1..Len(watchlist) : watchlist[i] = watchlist[j] => i = j)
    /\ [][/\ (last'.op = "Add" /\ Member(watchlist, last'.stock))
               => watchlist' = watchlist
          /\ (last'.op = "Add" /\ ~Member(watchlist, last'.stock))
               => watchlist' = Append(watchlist, last'.stock)
          /\ \A a, b \in Tickers :
                 (/\ Before(watchlist, a, b)
                  /\ Member(watchlist', a)
                  /\ Member(watchlist', b))
                     => Before(watchlist', a, b)]_vars

\* C16's case: a ticker of a watchlist of two was added again.
C16_Witness ==
    /\ last.op = "Add"
    /\ last.outcome = "warning"
    /\ Len(watchlist) = 2
    /\ watchlist[1] = last.stock

\* C20: an accepted order on T leaves the quantity of every other ticker
\* and the watchlist unchanged; an accepted Load Money leaves the
\* positions, the transaction history and the watchlist unchanged; the
\* watchlist buttons leave cash_balance, the positions and both logs
\* unchanged.
C20_EventsChangeTheirOwnPart ==
    [][/\ (\/ last'.op = "Buy" /\ cash_balance >= last'.quantity * last'.price
           \/ last'.op = "Sell" /\ portfolio[last'.stock] >= last'.quantity)
            => /\ \A stock \in Tickers \ {last'.stock} :
                      portfolio'[stock] = portfolio[stock]
               /\ watchlist' = watchlist
       /\ (last'.op = "Load" /\ Len(last'.id) >= 8)
            => UNCHANGED <<portfolio, transaction_history, watchlist>>
       /\ last'.op \in {"Add", "Remove"}
            => UNCHANGED <<cash_balance, portfolio, transaction_history,
                           performance>>]_vars

\* C20's case: an order on one ticker was accepted while the other ticker
\* was held and the watchlist was in use.
C20_Witness ==
    /\ last.op = "Buy"
    /\ last.outcome = "success"
    /\ \E stock \in Tickers \ {last.stock} :
           portfolio[stock] > 0 /\ portfolio[stock] # portfolio[last.stock]
    /\ watchlist # <<>>

\* C17: for calculate_rsi with window w on a series longer than w, the
\* results at the source's indices 0 .. w-1 are missing.
C17_FirstWindowMissing ==
    analytics.shown = "rsi"
        => \A i \in 0..(analytics.window - 1) : analytics.rsi[i + 1] = NaN

\* The series does not fall over the window of w changes that ends at the
\* source's index i: the rolling average loss there is 0.
NoLossInWindow(data, w, i) ==
    \A k \in (i - w + 1)..i : data[k + 1] >= data[k]

\* C18: at every index with a full window of history where the rolling
\* average loss is 0, calculate_rsi gives the number 100.
C18_NoLossMeansHundred ==
    analytics.shown = "rsi"
        => \A i \in analytics.window..(Len(close_history) - 1) :
               NoLossInWindow(close_history, analytics.window, i)
                   => /\ analytics.rsi[i + 1].kind = "number"
                      /\ analytics.rsi[i + 1].num = 100 * analytics.rsi[i + 1].den

\* C19: the Beta reported is Cov(R, B) / Var(B) for the stock's returns R
\* and the benchmark's returns B, and undefined when Var(B) = 0.
C19_BetaAgainstBenchmark ==
    analytics.shown = "risk"
        => LET R == Returns(close_history)
               B == Returns(benchmark_history)
           IN IF CenteredProducts(B, B) = 0
              THEN analytics.beta = NaN
              ELSE /\ analytics.beta.kind = "number"
                   /\ analytics.beta.num * CenteredProducts(B, B)
                          = CenteredProducts(R, B) * analytics.beta.den

====
